---- MODULE Spec2Model ----
(***************************************************************************)
(* Model of music-api/api/server.py: the /download endpoint.               *)
(*                                                                         *)
(* A request is handled by download_music on the event loop; the blocking  *)
(* do_download runs on a worker thread (asyncio.to_thread); the framework  *)
(* then transmits the response and, afterwards, runs the background task   *)
(* cleanup_file.  The temp directory is shared by all requests.            *)
(***************************************************************************)
EXTENDS Integers, Sequences, FiniteSets, TLC

\* ------------------------------------------------------------------ bounds

\* Number of /download requests that arrive.
NumReq == 2

\* Number of characters of a generated identifier (str(uuid.uuid4())).
IdLen == 2

\* Longest source title returned by the extraction library.
MaxTitleLen == 2

Requests == 1..NumReq

\* ------------------------------------------------------- strings and paths

TEMP_DIR == "/tmp"

\* str(uuid.uuid4()): identifiers have a fixed length and are pairwise
\* distinct; the r-th draw is the IdLen-digit binary numeral of r - 1.
Uuid(r) == [i \in 1..IdLen |-> IF ((r - 1) \div (2 ^ (IdLen - i))) % 2 = 0 THEN "0" ELSE "1"]

\* f"{temp_id}.%(ext)s" once the library has filled in the extension.
OutTmpl(temp_id, ext) == temp_id \o <<".", ext>>

\* os.path.join(TEMP_DIR, f)
PathJoin(dir, f) == <<dir>> \o f

\* the directory entry a path under TEMP_DIR names
BaseName(path) == Tail(path)

\* A prefix test that compares the first character only.
StartsWithFirstChar(f, prefix) == Len(f) >= 1 /\ Len(prefix) >= 1 /\ f[1] = prefix[1]

\* str.startswith
StartsWith(f, prefix) == Len(f) >= Len(prefix) /\ SubSeq(f, 1, Len(prefix)) = prefix

\* A title left as extracted.
ReplaceNothing(s, old, new) == s

\* str.replace(old, new) for one-character old and new
Replace(s, old, new) == [i \in 1..Len(s) |-> IF s[i] = old THEN new ELSE s[i]]

\* ------------------------------------------------------- quality profiles

Qualities == {"mp3_320", "mp3_192", "m4a", "flac"}

QUALITY_SETTINGS == [q \in Qualities |->
    CASE q = "mp3_320" -> [ext |-> "mp3", codec |-> "mp3", bitrate |-> "320", format |-> "bestaudio/best"]
      [] q = "mp3_192" -> [ext |-> "mp3", codec |-> "mp3", bitrate |-> "192", format |-> "bestaudio/best"]
      [] q = "m4a"     -> [ext |-> "m4a", codec |-> "", bitrate |-> "", format |-> "bestaudio[ext=m4a]/best"]
      [] q = "flac"    -> [ext |-> "flac", codec |-> "flac", bitrate |-> "", format |-> "bestaudio/best"]]

\* setting['ext']
Ext(q) == QUALITY_SETTINGS[q].ext

\* --------------------------------------------------------------- exceptions

\* The classes an exception type is an instance of.
Mro(type) ==
    CASE type = "DownloadError"     -> {"DownloadError", "YoutubeDLError", "Exception"}
      [] type = "ValueError"        -> {"ValueError", "Exception"}
      [] type = "RuntimeError"      -> {"RuntimeError", "Exception"}
      [] type = "AttributeError"    -> {"AttributeError", "Exception"}
      [] type = "FileNotFoundError" -> {"FileNotFoundError", "OSError", "Exception"}
      [] type = "PermissionError"   -> {"PermissionError", "OSError", "Exception"}
      [] OTHER                      -> {}

IsInstance(exc, cls) == cls \in Mro(exc.type)

NoExc == [type |-> "", msg |-> ""]

\* The detail strings of the two HTTP errors and the messages of the
\* exceptions the code itself raises.
MsgInvalidUrl == "No se pudo procesar la URL. Puede ser invalida o el video no esta disponible."
MsgInternal == "Ocurrio un error interno en el servidor."
MsgNotFound == "No se encontro el archivo procesado en el directorio temporal."
MsgNoneReplace == "'NoneType' object has no attribute 'replace'"
\* The text of an exception raised inside the extraction library.
MsgLibrary == "text of the library's exception"

\* What extract_info can raise.
LibraryRaises == {"DownloadError", "ValueError", "RuntimeError"}


\* do_download without its DownloadError clause.
DoDownloadReraise(exc) == exc

\* What do_download re-raises for an exception raised inside its try block:
\* the library's DownloadError becomes a ValueError with a fixed message,
\* anything else is logged and re-raised unchanged.
DoDownloadExcept(exc) ==
    IF IsInstance(exc, "DownloadError")
    THEN [type |-> "ValueError", msg |-> MsgInvalidUrl]
    ELSE exc

\* ------------------------------------------------------ extraction metadata

Chars == {"a", "/"}

Titles == UNION {[1..n -> Chars] : n \in 0..MaxTitleLen}

\* The info dictionary extract_info returns: with a title string, without a
\* 'title' key, or with 'title' present and None.
StrInfo(t) == [kind |-> "str", title |-> t]
AbsentInfo == [kind |-> "absent", title |-> <<>>]
NullInfo == [kind |-> "null", title |-> <<>>]
NoInfo == [kind |-> "unset", title |-> <<>>]

AllInfos == {StrInfo(t) : t \in Titles} \cup {AbsentInfo, NullInfo}
BriefInfos == {StrInfo(<<"/">>), AbsentInfo, NullInfo}

\* info.get('title', 'audio')
GetTitle(info) == IF info.kind = "absent" THEN <<"audio">> ELSE info.title

\* info.get('title', 'audio').replace('/', '_')
SanitizedTitle(info) == Replace(GetTitle(info), "/", "_")

\* The extensions of the files the library may leave under the output
\* template: nothing, or the file in the profile's extension.
Writes == [q \in Qualities |-> {{}, {Ext(q)}}]

\* The same, with the downloaded container kept next to the transcoded file.
SidecarWrites == [q \in Qualities |-> SUBSET {Ext(q), "webm"}]

\* ------------------------------------------------------------ prefix scan

\* os.listdir(TEMP_DIR): the entries in an arbitrary order.
RECURSIVE Listings(_)
Listings(S) ==
    IF S = {} THEN {<<>>}
    ELSE UNION {{<<f>> \o l : l \in Listings(S \ {f})} : f \in S}

\* A scan that keeps the last matching entry.
RECURSIVE LastMatch(_, _)
LastMatch(l, temp_id) ==
    IF l = <<>> THEN <<>>
    ELSE IF StartsWith(l[Len(l)], temp_id) THEN l[Len(l)]
    ELSE LastMatch(SubSeq(l, 1, Len(l) - 1), temp_id)

\* for f in listing: if f.startswith(temp_id): return f   (<<>>: loop fell through)
RECURSIVE FirstMatch(_, _)
FirstMatch(l, temp_id) ==
    IF l = <<>> THEN <<>>
    ELSE IF StartsWith(Head(l), temp_id) THEN Head(l)
    ELSE FirstMatch(Tail(l), temp_id)

\* ---------------------------------------------------------------- results

\* What do_download hands to the awaiting handler.
\* exc: the exception that leaves do_download; cause: the one raised inside
\* its try block.
NoResult == [kind |-> "none", path |-> <<>>, title |-> <<>>, exc |-> NoExc, cause |-> NoExc]
Returned(path, title) ==
    [kind |-> "ok", path |-> path, title |-> title, exc |-> NoExc, cause |-> NoExc]
Raised(exc) ==
    [kind |-> "raise", path |-> <<>>, title |-> <<>>, exc |-> DoDownloadExcept(exc), cause |-> exc]

NoResponse == [status |-> 0, detail |-> "", path |-> <<>>, filename |-> <<>>, media |-> ""]

FileResponse(path, filename) ==
    [status |-> 200, detail |-> "", path |-> path, filename |-> filename,
     media |-> "application/octet-stream"]

HTTPException(status, detail) ==
    [status |-> status, detail |-> detail, path |-> <<>>, filename |-> <<>>, media |-> ""]

\* f"{title}.{ext}"
DownloadName(title, ext) == title \o <<".", ext>>

\* A handler that answers every exception as a client error.
EndpointExceptAll400(exc) == HTTPException(400, exc.msg)

\* The except clauses of download_music.
EndpointExcept(exc) ==
    IF IsInstance(exc, "ValueError")
    THEN HTTPException(400, exc.msg)
    ELSE HTTPException(500, MsgInternal)

\* The framework's own answer when sending a FileResponse fails.
ServerError == HTTPException(500, "Internal Server Error")

NoCleanup == [runs |-> 0, log |-> "none", result |-> "none"]

\* ------------------------------------------------------------------- state

VARIABLES
    pc,        \* where each request is
    quality,   \* request.quality
    info,      \* what extract_info returned, inside do_download
    listing,   \* what os.listdir returned, inside do_download
    result,    \* what do_download returned or raised
    tasks,     \* background_tasks: the paths cleanup_file is scheduled for
    response,  \* the response the handler produced
    cleanup,   \* the runs of cleanup_file: how many, what was logged, how it ended
    written,   \* the entries the request's extraction created
    tempdir    \* the entries of TEMP_DIR

vars == <<pc, quality, info, listing, result, tasks, response, cleanup, written, tempdir>>

Init ==
    /\ pc = [r \in Requests |-> "idle"]
    /\ quality = [r \in Requests |-> ""]
    /\ info = [r \in Requests |-> NoInfo]
    /\ listing = [r \in Requests |-> <<>>]
    /\ result = [r \in Requests |-> NoResult]
    /\ tasks = [r \in Requests |-> <<>>]
    /\ response = [r \in Requests |-> NoResponse]
    /\ cleanup = [r \in Requests |-> NoCleanup]
    /\ written = [r \in Requests |-> {}]
    /\ tempdir = {}

\* os.path.exists(path)
Exists(path) == Len(path) >= 1 /\ Head(path) = TEMP_DIR /\ BaseName(path) \in tempdir

\* do_download called inline, on the event loop.
RunsOnLoop(r) == "loop"

\* asyncio.to_thread(do_download): do_download runs on a worker thread.
RunsOn(r) == "thread"

\* The event loop runs one thing at a time: it is busy while a blocking call
\* runs on it.
LoopBusy == \E r \in Requests : RunsOn(r) = "loop" /\ pc[r] \in {"extracting", "scanning"}

InFlight(r) == pc[r] \notin {"idle", "closed"}


\* ------------------------------------------------------------ the handler

\* download_music up to its await: the request is read, the identifier and
\* the options are built, and do_download is handed to a worker thread.
\* Q: the quality selectors requests arrive with; alone: requests arrive one
\* after the other.
ReceiveFrom(r, Q, alone) ==
    /\ pc[r] = "idle"
    /\ ~LoopBusy
    /\ alone => \A s \in Requests : ~InFlight(s)
    /\ \E q \in Q : quality' = [quality EXCEPT ![r] = q]
    /\ pc' = [pc EXCEPT ![r] = "extracting"]
    /\ UNCHANGED <<info, listing, result, tasks, response, cleanup, written, tempdir>>

\* ydl.extract_info(url, download=True) on the worker thread: the library
\* leaves files named after the output template and returns the metadata, or
\* raises; what it raises passes through do_download's except clauses.
\* I: the metadata the sources have; W: for each selector, the sets of
\* extensions of the files the library may leave.
ExtractInfoFrom(r, I, W) ==
    /\ pc[r] = "extracting"
    /\ \E exts \in W[quality[r]] :
        LET files == {OutTmpl(Uuid(r), e) : e \in exts} IN
        /\ tempdir' = tempdir \cup files
        /\ written' = [written EXCEPT ![r] = files]
    /\ \/ /\ \E i \in I : info' = [info EXCEPT ![r] = i]
          /\ pc' = [pc EXCEPT ![r] = "scanning"]
          /\ UNCHANGED result
       \/ /\ \E t \in LibraryRaises :
              result' = [result EXCEPT ![r] =
                            Raised([type |-> t, msg |-> MsgLibrary])]
          /\ pc' = [pc EXCEPT ![r] = "returned"]
          /\ UNCHANGED info
    /\ UNCHANGED <<quality, listing, tasks, response, cleanup>>

\* The rest of do_download on the worker thread: the title is sanitized, the
\* temp directory is listed and scanned for the identifier, and the function
\* returns (final_path, title) or raises.
ResolveFile(r) ==
    /\ pc[r] = "scanning"
    /\ IF info[r].kind = "null"
       THEN /\ result' = [result EXCEPT ![r] =
                   Raised([type |-> "AttributeError", msg |-> MsgNoneReplace])]
            /\ UNCHANGED listing
       ELSE \E l \in Listings(tempdir) :
            /\ listing' = [listing EXCEPT ![r] = l]
            /\ LET f == FirstMatch(l, Uuid(r)) IN
               result' = [result EXCEPT ![r] =
                   IF f # <<>>
                   THEN Returned(PathJoin(TEMP_DIR, f), SanitizedTitle(info[r]))
                   ELSE Raised([type |-> "FileNotFoundError", msg |-> MsgNotFound])]
    /\ pc' = [pc EXCEPT ![r] = "returned"]
    /\ UNCHANGED <<quality, info, tasks, response, cleanup, written, tempdir>>

\* A handler that also removes the identifier's entries when it answers an
\* error.
ResumeCleaningUp(r) ==
    /\ pc[r] = "returned"
    /\ ~LoopBusy
    /\ IF result[r].kind = "ok"
       THEN /\ tasks' = [tasks EXCEPT ![r] = Append(@, result[r].path)]
            /\ response' = [response EXCEPT ![r] =
                   FileResponse(result[r].path, DownloadName(result[r].title, Ext(quality[r])))]
            /\ UNCHANGED tempdir
       ELSE /\ response' = [response EXCEPT ![r] = EndpointExcept(result[r].exc)]
            /\ tempdir' = {f \in tempdir : ~StartsWith(f, Uuid(r))}
            /\ UNCHANGED tasks
    /\ listing' = [listing EXCEPT ![r] = <<>>]
    /\ pc' = [pc EXCEPT ![r] = "responded"]
    /\ UNCHANGED <<quality, info, result, cleanup, written>>

\* download_music after its await: with a result, cleanup_file is added to
\* the background tasks and a FileResponse is returned; with an exception,
\* an HTTPException is raised.
Resume(r) ==
    /\ pc[r] = "returned"
    /\ ~LoopBusy
    /\ IF result[r].kind = "ok"
       THEN /\ tasks' = [tasks EXCEPT ![r] = Append(@, result[r].path)]
            /\ response' = [response EXCEPT ![r] =
                   FileResponse(result[r].path, DownloadName(result[r].title, Ext(quality[r])))]
       ELSE /\ response' = [response EXCEPT ![r] = EndpointExcept(result[r].exc)]
            /\ UNCHANGED tasks
    /\ listing' = [listing EXCEPT ![r] = <<>>]
    /\ pc' = [pc EXCEPT ![r] = "responded"]
    /\ UNCHANGED <<quality, info, result, cleanup, written, tempdir>>

\* The framework transmits the response.  A FileResponse whose file is gone
\* fails while being sent, and its background tasks are not run.
Deliver(r) ==
    /\ pc[r] = "responded"
    /\ ~LoopBusy
    /\ IF response[r].status = 200 /\ ~Exists(response[r].path)
       THEN /\ response' = [response EXCEPT ![r] = ServerError]
            /\ tasks' = [tasks EXCEPT ![r] = <<>>]
       ELSE UNCHANGED <<response, tasks>>
    /\ pc' = [pc EXCEPT ![r] = "sent"]
    /\ UNCHANGED <<quality, info, listing, result, cleanup, written, tempdir>>

\* Cleanup awaited in the handler instead of scheduled after the send.
BackgroundBeforeSend(r) == pc[r] \in {"responded", "sent"}

\* The framework runs the background tasks once the response has been sent.
BackgroundMayRun(r) == pc[r] = "sent"

\* cleanup_file(path), up to os.path.exists(path).
CleanupExists(r) ==
    /\ BackgroundMayRun(r)
    /\ ~LoopBusy
    /\ tasks[r] # <<>>
    /\ cleanup[r].result # "exists"
    /\ IF Exists(Head(tasks[r]))
       THEN /\ cleanup' = [cleanup EXCEPT ![r] =
                   [runs |-> @.runs + 1, log |-> "none", result |-> "exists"]]
            /\ UNCHANGED tasks
       ELSE /\ cleanup' = [cleanup EXCEPT ![r] =
                   [runs |-> @.runs + 1, log |-> "none", result |-> "absent"]]
            /\ tasks' = [tasks EXCEPT ![r] = Tail(@)]
    /\ UNCHANGED <<pc, quality, info, listing, result, response, written, tempdir>>

\* A cleanup that catches FileNotFoundError only.
CleanupExceptNarrow(exc) ==
    IF IsInstance(exc, "FileNotFoundError")
    THEN [log |-> "error", result |-> "caught"]
    ELSE [log |-> "none", result |-> "raised"]

\* What cleanup_file does with an exception os.remove raises.
CleanupExcept(exc) ==
    IF IsInstance(exc, "OSError")
    THEN [log |-> "error", result |-> "caught"]
    ELSE [log |-> "none", result |-> "raised"]

\* The directory after os.remove(path).
Removed(dir, path) == dir \ {BaseName(path)}

\* cleanup_file(path), from os.remove(path) on: the entry is removed and the
\* removal logged, or os.remove raises (the entry is protected, or is gone
\* since it was seen).
CleanupRemove(r) ==
    /\ cleanup[r].result = "exists"
    /\ LET path == Head(tasks[r]) IN
       \/ /\ Exists(path)
          /\ tempdir' = Removed(tempdir, path)
          /\ cleanup' = [cleanup EXCEPT ![r].log = "info", ![r].result = "removed"]
       \/ /\ \E t \in (IF Exists(path) THEN {"PermissionError"} ELSE {"FileNotFoundError"}) :
              LET how == CleanupExcept([type |-> t, msg |-> "os.remove failed"]) IN
              cleanup' = [cleanup EXCEPT ![r].log = how.log, ![r].result = how.result]
          /\ UNCHANGED tempdir
    /\ tasks' = [tasks EXCEPT ![r] = Tail(@)]
    /\ UNCHANGED <<pc, quality, info, listing, result, response, written>>

\* The request is over: its objects are released.
EndRequest(r) ==
    /\ pc[r] = "sent"
    /\ tasks[r] = <<>>
    /\ pc' = [pc EXCEPT ![r] = "closed"]
    /\ quality' = [quality EXCEPT ![r] = ""]
    /\ info' = [info EXCEPT ![r] = NoInfo]
    /\ result' = [result EXCEPT ![r] = NoResult]
    /\ response' = [response EXCEPT ![r] = NoResponse]
    /\ cleanup' = [cleanup EXCEPT ![r] = NoCleanup]
    /\ written' = [written EXCEPT ![r] = {}]
    /\ UNCHANGED <<listing, tasks, tempdir>>

\* Another process removes an entry of the shared temp directory.
OtherProcessRemoves ==
    /\ \E f \in tempdir : tempdir' = tempdir \ {f}
    /\ UNCHANGED <<pc, quality, info, listing, result, tasks, response, cleanup, written>>

\* ------------------------------------------------------- specifications

\* The selectors the concurrent requests arrive with.
SomeQualities == {"m4a"}

Receive(r) == ReceiveFrom(r, SomeQualities, FALSE)
ExtractInfo(r) == ExtractInfoFrom(r, BriefInfos, Writes)

\* Concurrent requests; nothing but the server touches the temp directory.
Next ==
    \E r \in Requests :
        \/ Receive(r)
        \/ ExtractInfo(r)
        \/ ResolveFile(r)
        \/ Resume(r)
        \/ Deliver(r)
        \/ CleanupExists(r)
        \/ CleanupRemove(r)
        \/ EndRequest(r)

Spec == Init /\ [][Next]_vars

ReceiveAlone(r) == ReceiveFrom(r, Qualities, TRUE)
ExtractInfoAny(r) == ExtractInfoFrom(r, AllInfos, Writes)

\* Requests one after the other, with every selector and every title.
NextAlone ==
    \E r \in Requests :
        \/ ReceiveAlone(r)
        \/ ExtractInfoAny(r)
        \/ ResolveFile(r)
        \/ Resume(r)
        \/ Deliver(r)
        \/ CleanupExists(r)
        \/ CleanupRemove(r)
        \/ EndRequest(r)

SpecAlone == Init /\ [][NextAlone]_vars

ExtractInfoSidecar(r) == ExtractInfoFrom(r, BriefInfos, SidecarWrites)

\* Requests one after the other, the library leaving several files.
NextSidecar ==
    \E r \in Requests :
        \/ ReceiveAlone(r)
        \/ ExtractInfoSidecar(r)
        \/ ResolveFile(r)
        \/ Resume(r)
        \/ Deliver(r)
        \/ CleanupExists(r)
        \/ CleanupRemove(r)
        \/ EndRequest(r)

SpecSidecar == Init /\ [][NextSidecar]_vars

\* Requests one after the other, with other processes removing entries of
\* the shared temp directory.
NextShared ==
    \/ OtherProcessRemoves
    \/ \E r \in Requests :
        \/ ReceiveAlone(r)
        \/ ExtractInfo(r)
        \/ ResolveFile(r)
        \/ Resume(r)
        \/ Deliver(r)
        \/ CleanupExists(r)
        \/ CleanupRemove(r)
        \/ EndRequest(r)

SpecShared == Init /\ [][NextShared]_vars


\* ------------------------------------------------------------------ claims

Responded(r) == response[r].status # 0

\* The worker's call raised inside do_download, and the handler has answered.
AnsweredRaise(r) == Responded(r) /\ result[r].kind = "raise"

\* C1: every exception raised in do_download that is not the library's
\* DownloadError ends the request with a 500 whose detail is the generic
\* message; the exception's own text is never in the response.
C1_GenericInternalError ==
    \A r \in Requests :
        (AnsweredRaise(r) /\ ~IsInstance(result[r].cause, "DownloadError"))
            => /\ response[r].status = 500
               /\ response[r].detail = MsgInternal
               /\ response[r].detail # result[r].cause.msg

\* C2: a request whose extraction raises DownloadError ends with a 400 whose
\* detail is the fixed, non-empty message, never with a 500 or a file.
C2_DownloadErrorIs400 ==
    \A r \in Requests :
        (AnsweredRaise(r) /\ IsInstance(result[r].cause, "DownloadError"))
            => /\ response[r].status = 400
               /\ response[r].detail = MsgInvalidUrl
               /\ response[r].detail # ""
               /\ response[r].detail # result[r].cause.msg
               /\ response[r].path = <<>>
               /\ tasks[r] = <<>>

C2_Witness ==
    \E r \in Requests :
        /\ pc[r] = "sent"
        /\ response[r].status = 400
        /\ result[r].cause.type = "DownloadError"

NoEntryListed(r) == \A i \in 1..Len(listing[r]) : ~StartsWith(listing[r][i], Uuid(r))

\* C3: when extract_info returns and no listed entry starts with the
\* identifier, do_download raises the file-not-found error and the request
\* ends with a 500, never a 400 and never a file.
C3_MissingFileIs500 ==
    \A r \in Requests :
        /\ (pc[r] = "returned" /\ info[r].kind \in {"str", "absent"} /\ NoEntryListed(r))
              => /\ result[r].kind = "raise"
                 /\ result[r].exc.type = "FileNotFoundError"
        /\ (Responded(r) /\ info[r].kind # "unset" /\ written[r] = {})
              => /\ response[r].status = 500
                 /\ response[r].detail = MsgInternal
                 /\ response[r].path = <<>>
                 /\ tasks[r] = <<>>

C3_Witness ==
    \E r \in Requests :
        /\ pc[r] = "sent"
        /\ info[r].kind = "str"
        /\ written[r] = {}
        /\ result[r].exc.type = "FileNotFoundError"
        /\ response[r].status = 500

\* C4: the deletion of the result file runs exactly once and only after the
\* response has been sent; the file exists until then, and is gone once the
\* cleanup has run without a filesystem error.
C4_CleanupAfterSend ==
    \A r \in Requests :
        /\ cleanup[r].runs <= 1
        /\ cleanup[r].runs >= 1 => (pc[r] = "sent" /\ response[r].status = 200)
        /\ (result[r].kind = "ok" /\ pc[r] \in {"returned", "responded"}) => Exists(result[r].path)
        /\ (response[r].status = 200 /\ cleanup[r].runs = 0) => Exists(response[r].path)
        /\ cleanup[r].result = "removed" => ~Exists(response[r].path)
        /\ (pc[r] = "sent" /\ response[r].status = 200 /\ tasks[r] = <<>>) => cleanup[r].runs = 1

C4_Witness ==
    \E r \in Requests :
        /\ pc[r] = "sent"
        /\ response[r].status = 200
        /\ cleanup[r].result = "removed"
        /\ tasks[r] = <<>>

\* C5: concurrent requests never resolve to the same temp file: each serves a
\* file named after its own identifier, and an entry a request created is
\* missing only when that request's own cleanup removed it as its result file.
C5_NoCollision ==
    \A r \in Requests :
        /\ result[r].kind = "ok" => StartsWith(BaseName(result[r].path), Uuid(r))
        /\ response[r].status = 200 =>
              /\ StartsWith(BaseName(response[r].path), Uuid(r))
              /\ \A s \in Requests \ {r} :
                    response[s].status = 200 => response[s].path # response[r].path
        /\ \A i \in 1..Len(tasks[r]) : StartsWith(BaseName(tasks[r][i]), Uuid(r))
        /\ \A f \in written[r] \ tempdir :
              /\ cleanup[r].result = "removed"
              /\ response[r].path = PathJoin(TEMP_DIR, f)

C5_Witness ==
    \E r, s \in Requests :
        /\ r # s
        /\ cleanup[r].result = "removed"
        /\ response[s].status = 200
        /\ cleanup[s].result = "exists"
        /\ Exists(response[s].path)

\* C6 as stated: when the deletion fails with a filesystem error or the file
\* is already gone, cleanup_file logs the error and returns normally, the
\* response is unchanged and the deletion is not retried.
C6_LogsWheneverNotRemoved ==
    \A r \in Requests :
        cleanup[r].result \in {"caught", "absent", "raised"}
            => /\ cleanup[r].log = "error"
               /\ cleanup[r].result # "raised"
               /\ cleanup[r].runs = 1
               /\ response[r] = FileResponse(result[r].path,
                                             DownloadName(result[r].title, Ext(quality[r])))

\* C6 amended: when os.remove raises a filesystem error, cleanup_file logs the
\* error; when the file is already gone at the existence check it logs
\* nothing; either way it returns normally, the response is unchanged and the
\* deletion is not retried.
C6_BestEffortCleanup ==
    \A r \in Requests :
        /\ cleanup[r].result = "caught" => cleanup[r].log = "error"
        /\ cleanup[r].result = "absent" => cleanup[r].log = "none"
        /\ cleanup[r].result # "raised"
        /\ cleanup[r].runs <= 1
        /\ cleanup[r].runs = 1 =>
              response[r] = FileResponse(result[r].path,
                                         DownloadName(result[r].title, Ext(quality[r])))

C6_Witness ==
    \E r \in Requests :
        /\ cleanup[r].result = "caught"
        /\ cleanup[r].log = "error"
        /\ tasks[r] = <<>>
        /\ Exists(response[r].path)

\* The extension the claim gives for each selector.
ProfileExt(q) ==
    CASE q = "mp3_320" -> "mp3"
      [] q = "mp3_192" -> "mp3"
      [] q = "m4a"     -> "m4a"
      [] q = "flac"    -> "flac"

\* C7: a successful response has filename <stem>.<ext>: ext is the selector's
\* extension, stem is the extracted title ('audio' without a title) and holds
\* no '/' even if the title does.
C7_DownloadName ==
    \A r \in Requests :
        response[r].status = 200 =>
            LET name == response[r].filename
                n == Len(name) - 2
                stem == SubSeq(name, 1, n)
                title == IF info[r].kind = "absent" THEN <<"audio">> ELSE info[r].title
            IN  /\ n >= 0
                /\ name[n + 1] = "."
                /\ name[n + 2] = ProfileExt(quality[r])
                /\ Len(title) = n
                /\ \A i \in 1..n :
                      /\ stem[i] # "/"
                      /\ title[i] # "/" => stem[i] = title[i]
                      /\ title[i] = "/" => stem[i] = "_"

C7_Witness ==
    \E r \in Requests :
        /\ response[r].status = 200
        /\ quality[r] = "flac"
        /\ info[r].kind = "str"
        /\ \E i \in 1..Len(info[r].title) : info[r].title[i] = "/"
        /\ \E i \in 1..Len(info[r].title) : info[r].title[i] = "a"

\* C8: extraction runs off the event loop and the handler resumes only after
\* it: while a request's extraction is in progress the loop can accept
\* another request and resume a finished one, and no request has a response
\* before its own do_download call has returned or raised.
C8_OffloadedExtraction ==
    \A r \in Requests :
        /\ Responded(r) => result[r].kind # "none"
        /\ pc[r] \in {"extracting", "scanning"} =>
              /\ response[r] = NoResponse
              /\ tasks[r] = <<>>
              /\ \A s \in Requests \ {r} :
                    /\ pc[s] = "idle" => ENABLED Receive(s)
                    /\ pc[s] = "returned" => ENABLED Resume(s)

C8_Witness ==
    \E r, s \in Requests :
        /\ r # s
        /\ pc[r] = "extracting"
        /\ pc[s] = "sent"
        /\ response[s].status = 200

\* C9: the result file is the first listed entry that starts with the
\* identifier; the file served and the file scheduled for deletion are that
\* entry, and the other entries the request created are left in place.
C9_FirstMatchServed ==
    \A r \in Requests :
        /\ (pc[r] = "returned" /\ result[r].kind = "ok") =>
              \E i \in 1..Len(listing[r]) :
                  /\ result[r].path = PathJoin(TEMP_DIR, listing[r][i])
                  /\ StartsWith(listing[r][i], Uuid(r))
                  /\ \A j \in 1..(i - 1) : ~StartsWith(listing[r][j], Uuid(r))
        /\ response[r].status = 200 =>
              /\ response[r].path = result[r].path
              /\ BaseName(response[r].path) \in written[r]
              /\ cleanup[r].result \in {"none", "exists"} => tasks[r] = <<response[r].path>>
              /\ written[r] \ {BaseName(response[r].path)} \subseteq tempdir
        /\ cleanup[r].result = "removed" =>
              written[r] \cap tempdir = written[r] \ {BaseName(response[r].path)}

C9_Witness ==
    \E r \in Requests :
        /\ cleanup[r].result = "removed"
        /\ Cardinality(written[r]) = 2
        /\ Cardinality(written[r] \cap tempdir) = 1

\* C10: a request that ends in a 400 or 500 schedules no cleanup and deletes
\* nothing: every entry its extraction created is still in the directory.
C10_ErrorPathKeepsFiles ==
    \A r \in Requests :
        response[r].status \in {400, 500} =>
            /\ tasks[r] = <<>>
            /\ cleanup[r] = NoCleanup
            /\ written[r] \subseteq tempdir

C10_Witness ==
    \E r \in Requests :
        /\ pc[r] = "sent"
        /\ response[r].status \in {400, 500}
        /\ written[r] # {}

====
